---------------------------- MODULE Spec2Model ----------------------------
(***************************************************************************)
(* A model of genvideo.py: the cache-first download helper, the story /    *)
(* asset / subtitle pipeline driven by main(), and the timeline built by   *)
(* create_final_video().                                                   *)
(*                                                                         *)
(* Texts (topics, titles) are sequences of one-character strings, so that  *)
(* slugify is computed character by character as the two regular           *)
(* expressions of the source do.  Times are integers counted in ticks of   *)
(* 1/TicksPerSec second.                                                   *)
(***************************************************************************)
EXTENDS Integers, Sequences, FiniteSets, TLC

VARIABLES
    pc,           \* position of main(): idle, font, story, rename, assets, subs, compose, done, exited, crashed
    args,         \* the parsed command line of the current run
    fs,           \* cache/<slug>/ directories: slug -> directory contents or NoDir
    font,         \* cache/fonts/<font_id>.ttf
    cache_paths,  \* slug of cache_paths["base"]
    story_data,   \* the story main() holds
    image_paths,  \* download_all_assets' image_paths (segment indices, in append order)
    subtitles,    \* the value generate_subtitles returned
    exit_code,    \* process exit status once the run ended
    runs,         \* runs started so far
    stats,        \* what the current run did: requests, subprocess calls, fetch results
    prev,         \* summary of the previous run
    fetch_log,    \* every image fetch issued so far: prompt, seed and destination
    last,         \* the last stage executed and what it met
    faults,       \* failures the environment has injected so far (requests, subprocess)
    dest,         \* SpecFetch: the destination file of repeated download_file calls
    calls,        \* SpecFetch: the calls made so far
    comp,         \* SpecCompose: the inputs and the plan of create_final_video
    slugged       \* SpecSlug: a text and the slug slugify returned for it

pipeVars == <<pc, args, fs, font, cache_paths, story_data, image_paths, subtitles,
              exit_code, runs, stats, prev, fetch_log, last, faults>>
fetchVars == <<dest, calls>>
vars == <<pipeVars, fetchVars, comp, slugged>>

Nil == "nil"

-----------------------------------------------------------------------------
(* Bounds of the model.                                                    *)

MaxCalls == 3

\* Invocations of the program over one behaviour.
MaxRuns == 2

\* Failed requests and failed subprocess runs over one behaviour.
MaxFaults == 2

-----------------------------------------------------------------------------
(* Texts and slugify.                                                      *)

LowerChars == {"a", "b"}
UpperChars == {"A", "B"}
DigitChars == {"7"}
SpaceChars == {" "}
DashChar == "-"
\* "!" is ASCII punctuation, "zh" stands for one CJK character.
OtherChars == {"!", "zh"}

\* str.lower() on the characters of the model's alphabet
LowerChar(c) ==
    CASE c = "A" -> "a"
      [] c = "B" -> "b"
      [] OTHER -> c

Lower(text) == [i \in 1..Len(text) |-> LowerChar(text[i])]

\* membership in the class [a-z0-9\s-]
InSlugClass(c) == c \in LowerChars \cup DigitChars \cup SpaceChars \cup {DashChar}

\* membership in the class [\s-]
InSepClass(c) == c \in SpaceChars \cup {DashChar}

\* re.sub(r'[^a-z0-9\s-]', '', text)
RECURSIVE StripDisallowed(_)
StripDisallowed(text) ==
    IF text = <<>> THEN <<>>
    ELSE IF InSlugClass(Head(text))
         THEN <<Head(text)>> \o StripDisallowed(Tail(text))
         ELSE StripDisallowed(Tail(text))

\* re.sub(r'[\s-]+', '-', text)
RECURSIVE CollapseRuns(_)
CollapseRuns(text) ==
    IF text = <<>> THEN <<>>
    ELSE IF InSepClass(Head(text))
         THEN IF Len(text) > 1 /\ InSepClass(text[2])
              THEN CollapseRuns(Tail(text))
              ELSE <<DashChar>> \o CollapseRuns(Tail(text))
         ELSE <<Head(text)>> \o CollapseRuns(Tail(text))

RECURSIVE StripLeft(_)
StripLeft(text) ==
    IF text # <<>> /\ Head(text) = DashChar THEN StripLeft(Tail(text)) ELSE text

RECURSIVE StripRight(_)
StripRight(text) ==
    IF text # <<>> /\ text[Len(text)] = DashChar
    THEN StripRight(SubSeq(text, 1, Len(text) - 1))
    ELSE text

\* str.strip('-')
StripDashes(text) == StripRight(StripLeft(text))

slugify(text) == StripDashes(CollapseRuns(StripDisallowed(Lower(text))))

-----------------------------------------------------------------------------
(* Files and download_file.                                                *)

\* A file is absent, holds a body cut short by a failed transfer, or holds
\* the whole body of the response it was written from.
AbsentFile == [st |-> "absent", body |-> Nil]
PartialFile(b) == [st |-> "partial", body |-> b]
FullFile(b) == [st |-> "full", body |-> b]

Exists(file) == file.st # "absent"

\* What one GET can meet: the whole body arrives; requests.get or
\* raise_for_status raises before the file is opened; iter_content raises
\* after the file was opened.  All failures are RequestException.
Transport == {"ok", "refused", "cut"}

\* As DownloadFile, but a destination left cut short by an earlier failed
\* transfer is fetched again.
DownloadFileRefetchPartial(file, body, net) ==
    IF file.st = "full"
    THEN [ret |-> TRUE, file |-> file, requests |-> 0]
    ELSE CASE net = "ok" ->
                [ret |-> TRUE, file |-> FullFile(body), requests |-> 1]
           [] net = "refused" ->
                [ret |-> FALSE, file |-> AbsentFile, requests |-> 1]
           [] OTHER ->
                [ret |-> FALSE, file |-> PartialFile(body), requests |-> 1]

\* download_file(url, destination): the returned flag, the destination
\* afterwards and the number of GET requests issued; body is what the url
\* serves.
DownloadFile(file, body, net) ==
    IF Exists(file)
    THEN [ret |-> TRUE, file |-> file, requests |-> 0]
    ELSE CASE net = "ok" ->
                [ret |-> TRUE, file |-> FullFile(body), requests |-> 1]
           [] net = "refused" ->
                [ret |-> FALSE, file |-> AbsentFile, requests |-> 1]
           [] OTHER ->
                [ret |-> FALSE, file |-> PartialFile(body), requests |-> 1]

-----------------------------------------------------------------------------
(* The inputs of the pipeline: topics, generated stories, seeds.           *)

DEFAULT_SEED == 5000

\* "The story must contain exactly 5 segments" (rule 6 of the story prompt)
RequiredSegments == 5

TopicAB == <<"a", " ", "b">>
Topics == {TopicAB}

Segment(v, p) == [voice_prompt |-> v, image_prompt |-> p]

\* Payloads the text endpoint may answer with.  has_title / has_segments say
\* whether the JSON object carries the key; lang "" stands for a missing or
\* empty 'lang'.  StoryAB's title has the topic's slug, StoryB's another one,
\* StoryZh's title is in a script slugify strips entirely.
StoryAB ==
    [has_title |-> TRUE, title |-> <<"A", " ", "b", "!">>, lang |-> "en",
     has_segments |-> TRUE,
     segments |-> <<Segment("v1", "p1"), Segment("v2", "p1")>>]
StoryB ==
    [has_title |-> TRUE, title |-> <<"B">>, lang |-> "en",
     has_segments |-> TRUE,
     segments |-> <<Segment("v3", "p1")>>]
StoryZh ==
    [has_title |-> TRUE, title |-> <<"zh", "zh">>, lang |-> "zh",
     has_segments |-> TRUE,
     segments |-> <<Segment("v4", "p2"), Segment("v5", "p3")>>]
StoryUntitled ==
    [has_title |-> FALSE, title |-> <<>>, lang |-> "",
     has_segments |-> TRUE,
     segments |-> <<Segment("v1", "p1")>>]
StoryNoSegments ==
    [has_title |-> TRUE, title |-> <<"a", "-", "b">>, lang |-> "en",
     has_segments |-> FALSE, segments |-> <<>>]
Payloads == {StoryAB, StoryB, StoryZh, StoryUntitled, StoryNoSegments}

NoStory ==
    [has_title |-> FALSE, title |-> <<>>, lang |-> "",
     has_segments |-> FALSE, segments |-> <<>>]

\* What the story request can meet: a transport error, a body that is not
\* JSON, or a JSON payload.
StoryFailures == {"refused", "garbage"}
StoryResponses ==
    [kind : StoryFailures, payload : {NoStory}] \cup [kind : {"json"}, payload : Payloads]

SetMax(S) == CHOOSE x \in S : \A y \in S : y <= x
MaxSeg == SetMax({Len(p.segments) : p \in Payloads})

SeedArgs == {[given |-> FALSE, value |-> 0], [given |-> TRUE, value |-> 7]}

ArgSet == [topic : Topics, seed : SeedArgs, use_whisper : BOOLEAN]
NoArgs == [topic |-> <<>>, seed |-> [given |-> FALSE, value |-> 0], use_whisper |-> FALSE]

\* story_data.get("title", default)
GetTitle(story, default) == IF story.has_title THEN story.title ELSE default

\* story_data.get('segments', [])
GetSegments(story) == IF story.has_segments THEN story.segments ELSE <<>>

-----------------------------------------------------------------------------
(* The cache: one directory per slug under cache/.                         *)

Slugs == {slugify(t) : t \in Topics \cup {p.title : p \in Payloads}}
RootSlug == <<>>

NoDir == [exists |-> FALSE]
EmptyDir ==
    [exists |-> TRUE, story |-> AbsentFile,
     images |-> [i \in 1..MaxSeg |-> AbsentFile],
     audio |-> AbsentFile, subs |-> AbsentFile]

\* pathlib's mkdir(parents=True, exist_ok=True) on cache/<slug> and its three
\* sub-directories
MkDirs(f, slug) == IF f[slug].exists THEN f ELSE [f EXCEPT ![slug] = EmptyDir]

\* setup_cache_directories(story_title): the directories it creates; the
\* returned paths are those of slugify(story_title)
setup_cache_directories(f, story_title) == MkDirs(f, slugify(story_title))

\* cache/<slug>/story.json
StoryFile(f, slug) == IF f[slug].exists THEN f[slug].story ELSE AbsentFile

\* The files of a cache, directory by directory, whatever empty directories exist.
Artifacts(f) == [s \in Slugs |-> IF f[s].exists THEN f[s] ELSE EmptyDir]

SameFile(a, b) == a.st = b.st /\ (Exists(a) => a.body = b.body)

SameDir(a, b) ==
    /\ SameFile(a.story, b.story)
    /\ \A i \in 1..MaxSeg : SameFile(a.images[i], b.images[i])
    /\ SameFile(a.audio, b.audio)
    /\ SameFile(a.subs, b.subs)

SameArtifacts(f, g) == \A s \in Slugs : SameDir(Artifacts(f)[s], Artifacts(g)[s])

-----------------------------------------------------------------------------
(* Transcriptions as the whisper CLI writes them (times in ticks).         *)

TicksPerSec == 8 * 3 * 5 * 7

\* Texts of a transcription are sequences of tokens; whisper writes every
\* word, and every segment text, with a leading space.
Word(w, s, e) == [word |-> <<" ", w>>, start |-> s, end |-> e]
TSeg(s, e, t, ws) ==
    [start |-> s, end |-> e, text |-> <<" ", t>>, has_words |-> TRUE, words |-> ws]

EmptyTranscript == [segments |-> <<>>]
ShortTranscript ==
    [segments |-> <<TSeg(0, 2 * TicksPerSec, "t1",
                         <<Word("w1", 0, TicksPerSec), Word("w2", TicksPerSec, 2 * TicksPerSec)>>)>>]

\* What the transcription of a run's narration may be.
RunTranscripts == {EmptyTranscript, ShortTranscript}

\* How running the whisper executable can end: it exits 0 and has written
\* <stem>.json; the executable is missing (FileNotFoundError); it exits
\* non-zero (CalledProcessError); it exits 0 and has written nothing; it exits
\* 0 and has left a <stem>.json that is not valid JSON (JSONDecodeError at
\* line 227); the executable exists and cannot be run (PermissionError).
WhisperOutcomes == {"ok", "notfound", "nonzero", "nooutput", "badjson", "notrunnable"}

\* The outcomes with exit status 0, and those whose exception lines 230-239
\* do not catch.
WhisperExitsZero == {"ok", "nooutput", "badjson"}
WhisperUncaught == {"badjson", "notrunnable"}

-----------------------------------------------------------------------------
(* The stages main() calls.                                                *)

\* As generate_story_from_topic, but story.json is opened for writing before
\* the request is made, so a failed request leaves a truncated file behind.
generate_story_open_first(file, resp) ==
    IF Exists(file)
    THEN [story |-> file.body, file |-> file, requests |-> 0, hit |-> TRUE, exit |-> FALSE]
    ELSE IF resp.kind \in StoryFailures
         THEN [story |-> NoStory, file |-> PartialFile(NoStory), requests |-> 1,
               hit |-> FALSE, exit |-> TRUE]
         ELSE [story |-> resp.payload, file |-> FullFile(resp.payload), requests |-> 1,
               hit |-> FALSE, exit |-> FALSE]

\* generate_story_from_topic(topic, cache_path) reading cache_path/story.json
\* as `file` and, on a miss, meeting `resp`.  exit is TRUE when sys.exit(1) ran.
generate_story_from_topic(file, resp) ==
    IF Exists(file)
    THEN [story |-> file.body, file |-> file, requests |-> 0, hit |-> TRUE, exit |-> FALSE]
    ELSE IF resp.kind \in StoryFailures
         THEN [story |-> NoStory, file |-> file, requests |-> 1, hit |-> FALSE, exit |-> TRUE]
         ELSE [story |-> resp.payload, file |-> FullFile(resp.payload), requests |-> 1,
               hit |-> FALSE, exit |-> FALSE]

\* main(), lines 426-436: the directory renamed to the title's slug.  base is
\* the slug of story_title_for_cache, whose directory cache_paths points to.
RenameCache(f, base, story) ==
    LET actual_slug_title == IF story.has_title THEN slugify(story.title) ELSE base
    IN  IF actual_slug_title # base /\ ~f[actual_slug_title].exists
        THEN IF base = RootSlug
             THEN \* os.rename of cache/ into itself raises OSError
                  [fs |-> f, base |-> base]
             ELSE [fs |-> setup_cache_directories(
                              [f EXCEPT ![actual_slug_title] = f[base], ![base] = NoDir],
                              story.title),
                   base |-> slugify(story.title)]
        ELSE [fs |-> f, base |-> base]

\* current_seed of main()
CurrentSeed(a) == IF a.seed.given THEN a.seed.value ELSE DEFAULT_SEED

\* What URL_IMAGE serves for a prompt and a seed.
ImageBody(prompt, seed) == [prompt |-> prompt, seed |-> seed]

\* The narration of the space-joined voice prompts.
AudioBody(segments) == [i \in 1..Len(segments) |-> segments[i].voice_prompt]

\* As ImagesComplete, but satisfied by any image at all.
ImagesCompleteLax(paths, segments) == Len(paths) > 0 \/ Len(segments) = 0

\* download_all_assets, line 174: every segment has its image
ImagesComplete(paths, segments) == Len(paths) = Len(segments)

\* generate_subtitles(use_whisper, audio_path, story_data, cache_paths, ...):
\* the track returned, cache/<slug>/subtitles/narration.json afterwards, the
\* subprocess runs and the fallbacks taken; crashed when story_data["segments"]
\* raises KeyError.
RECURSIVE generate_subtitles(_, _, _, _, _)

\* As generate_subtitles, but a failed subprocess is run a second time before
\* the standard track is taken.
generate_subtitles_retry(use_whisper, subs_file, story, outcome, transcript) ==
    IF use_whisper /\ Exists(subs_file)
    THEN [type |-> "whisper", whisper |-> subs_file.body, standard |-> <<>>,
          file |-> subs_file, subproc |-> 0, fallbacks |-> 0, crashed |-> FALSE,
          language |-> <<>>]
    ELSE IF use_whisper /\ outcome = "ok"
    THEN [type |-> "whisper", whisper |-> transcript, standard |-> <<>>,
          file |-> FullFile(transcript), subproc |-> 1, fallbacks |-> 0,
          crashed |-> FALSE, language |-> <<>>]
    ELSE [type |-> IF story.has_segments THEN "standard" ELSE "none",
          whisper |-> [segments |-> <<>>], standard |-> story.segments,
          file |-> subs_file, subproc |-> IF use_whisper THEN 2 ELSE 0,
          fallbacks |-> IF use_whisper THEN 1 ELSE 0,
          crashed |-> ~story.has_segments, language |-> <<>>]

generate_subtitles(use_whisper, subs_file, story, outcome, transcript) ==
    IF use_whisper
    THEN IF Exists(subs_file)
         THEN IF subs_file.st = "full"
              THEN [type |-> "whisper", whisper |-> subs_file.body, standard |-> <<>>,
                    file |-> subs_file, subproc |-> 0, fallbacks |-> 0,
                    crashed |-> FALSE, language |-> <<>>]
              ELSE \* json.load of the cached file raises at line 203
                   [type |-> "none", whisper |-> EmptyTranscript, standard |-> <<>>,
                    file |-> subs_file, subproc |-> 0, fallbacks |-> 0,
                    crashed |-> TRUE, language |-> <<>>]
         ELSE LET language == IF story.lang # "" THEN <<"--language", story.lang>> ELSE <<>>
              IN  IF outcome = "ok"
                  THEN [type |-> "whisper", whisper |-> transcript, standard |-> <<>>,
                        file |-> FullFile(transcript), subproc |-> 1, fallbacks |-> 0,
                        crashed |-> FALSE, language |-> language]
                  ELSE IF outcome \in WhisperUncaught
                  THEN \* the exception leaves generate_subtitles and main()
                       [type |-> "none", whisper |-> EmptyTranscript, standard |-> <<>>,
                        file |-> IF outcome = "badjson" THEN PartialFile(transcript)
                                 ELSE subs_file,
                        subproc |-> 1, fallbacks |-> 0, crashed |-> TRUE,
                        language |-> language]
                  ELSE LET r == generate_subtitles(FALSE, subs_file, story, outcome,
                                                   transcript)
                       IN  [r EXCEPT !.subproc = @ + 1, !.fallbacks = @ + 1,
                                     !.language = language]
    ELSE IF story.has_segments
         THEN [type |-> "standard", whisper |-> EmptyTranscript,
               standard |-> story.segments, file |-> subs_file, subproc |-> 0,
               fallbacks |-> 0, crashed |-> FALSE, language |-> <<>>]
         ELSE [type |-> "none", whisper |-> EmptyTranscript, standard |-> <<>>,
               file |-> subs_file, subproc |-> 0, fallbacks |-> 0, crashed |-> TRUE,
               language |-> <<>>]

NoSubtitles == [type |-> "none", whisper |-> EmptyTranscript, standard |-> <<>>]

-----------------------------------------------------------------------------
(* The pipeline: main() run after run on one cache.                        *)

ImageAsset(i) == <<"image", i>>
AudioAsset == <<"audio", 0>>

ZeroStats ==
    [net |-> 0, story_reqs |-> 0, subproc |-> 0, fallbacks |-> 0,
     img_rets |-> <<>>, audio_rets |-> <<>>, tried |-> {}, fetched |-> {},
     story_persisted |-> FALSE]

NoPrev ==
    [valid |-> FALSE, args |-> NoArgs, status |-> "idle", story_persisted |-> FALSE,
     fetched |-> {}, fs |-> [s \in Slugs |-> NoDir]]

\* exit_code while the process is running
NoExit == 0 - 1

InitPipe ==
    /\ pc = "idle"
    /\ args = NoArgs
    /\ fs = [s \in Slugs |-> NoDir]
    /\ font = AbsentFile
    /\ cache_paths = RootSlug
    /\ story_data = NoStory
    /\ image_paths = <<>>
    /\ subtitles = NoSubtitles
    /\ exit_code = NoExit
    /\ runs = 0
    /\ stats = ZeroStats
    /\ prev = NoPrev
    /\ fetch_log = {}
    /\ last = [op |-> "none"]
    /\ faults = 0

Ended == pc \in {"done", "exited", "crashed"}

\* The environment fails a request or a subprocess run only within its budget.
Inject(failed) ==
    /\ failed => faults < MaxFaults
    /\ faults' = IF failed THEN faults + 1 ELSE faults

\* The state of a process that has just parsed its command line.
Launch(a) ==
    /\ runs' = runs + 1
    /\ args' = a
    /\ pc' = "font"
    /\ stats' = ZeroStats
    /\ cache_paths' = RootSlug
    /\ story_data' = NoStory
    /\ image_paths' = <<>>
    /\ subtitles' = NoSubtitles
    /\ exit_code' = NoExit
    /\ last' = [op |-> "start"]
    /\ UNCHANGED <<fs, font, fetch_log, faults, fetchVars, comp, slugged>>

\* The first invocation, on an empty cache.
StartRun(a) ==
    /\ pc = "idle"
    /\ prev' = prev
    /\ Launch(a)

\* The process has ended and the program is invoked again, on the cache the
\* earlier runs left.
ReRun(a) ==
    /\ Ended
    /\ runs < MaxRuns
    /\ prev' = [valid |-> TRUE, args |-> args, status |-> pc,
                story_persisted |-> stats.story_persisted,
                fetched |-> stats.fetched, fs |-> fs]
    /\ Launch(a)

\* main(), lines 408-423: the font, then the cache directory of the story.
MainFont(net) ==
    /\ pc = "font"
    /\ LET d == DownloadFile(font, "font", net)
           rooted == MkDirs(fs, RootSlug)
           initial_slug == slugify(args.topic)
           story_json == StoryFile(rooted, initial_slug)
           story_title_for_cache ==
               IF Exists(story_json) THEN GetTitle(story_json.body, args.topic)
               ELSE args.topic
       IN  /\ font' = d.file
           /\ stats' = [stats EXCEPT !.net = @ + d.requests]
           /\ IF d.ret
              THEN /\ fs' = setup_cache_directories(rooted, story_title_for_cache)
                   /\ cache_paths' = slugify(story_title_for_cache)
                   /\ pc' = "story"
                   /\ exit_code' = exit_code
              ELSE /\ fs' = rooted
                   /\ cache_paths' = cache_paths
                   /\ pc' = "exited"
                   /\ exit_code' = 1
    /\ last' = [op |-> "font"]
    /\ Inject(~Exists(font) /\ net # "ok")
    /\ UNCHANGED <<args, story_data, image_paths, subtitles, runs, prev, fetch_log,
                   fetchVars, comp, slugged>>

\* main(), line 425: generate_story_from_topic.
GenerateStory(resp) ==
    /\ pc = "story"
    /\ LET r == generate_story_from_topic(StoryFile(fs, cache_paths), resp)
       IN  /\ fs' = [fs EXCEPT ![cache_paths].story = r.file]
           /\ story_data' = r.story
           /\ stats' = [stats EXCEPT !.net = @ + r.requests,
                                     !.story_reqs = @ + r.requests,
                                     !.story_persisted = ~r.exit]
           /\ pc' = IF r.exit THEN "exited" ELSE "rename"
           /\ exit_code' = IF r.exit THEN 1 ELSE exit_code
           /\ last' = [op |-> "story", hit |-> r.hit,
                       resp |-> IF r.hit THEN [kind |-> "none", payload |-> NoStory]
                                ELSE resp]
    /\ Inject(~Exists(StoryFile(fs, cache_paths)) /\ resp.kind \in StoryFailures)
    /\ UNCHANGED <<args, font, cache_paths, image_paths, subtitles, runs, prev,
                   fetch_log, fetchVars, comp, slugged>>

\* main(), lines 426-438.
MainRename ==
    /\ pc = "rename"
    /\ LET r == RenameCache(fs, cache_paths, story_data)
       IN  /\ fs' = r.fs
           /\ cache_paths' = r.base
    /\ pc' = "assets"
    /\ last' = [op |-> "rename"]
    /\ UNCHANGED <<args, font, story_data, image_paths, subtitles, exit_code, runs,
                   stats, prev, fetch_log, faults, fetchVars, comp, slugged>>

\* download_all_assets, lines 165-172: one pass of the loop over the segments.
DownloadImage(net) ==
    /\ pc = "assets"
    /\ Len(stats.img_rets) < Len(GetSegments(story_data))
    /\ LET i == Len(stats.img_rets) + 1
           image_prompt == GetSegments(story_data)[i].image_prompt
           seed == CurrentSeed(args)
           d == DownloadFile(fs[cache_paths].images[i], ImageBody(image_prompt, seed), net)
       IN  /\ fs' = [fs EXCEPT ![cache_paths].images[i] = d.file]
           /\ image_paths' = IF d.ret THEN Append(image_paths, i) ELSE image_paths
           /\ stats' = [stats EXCEPT
                           !.net = @ + d.requests,
                           !.img_rets = Append(@, d.ret),
                           !.tried = IF d.requests > 0 THEN @ \cup {ImageAsset(i)} ELSE @,
                           !.fetched = IF d.requests > 0 /\ d.ret
                                       THEN @ \cup {ImageAsset(i)} ELSE @]
           /\ fetch_log' = fetch_log \cup
                  {[prompt |-> image_prompt, seed |-> seed, dir |-> cache_paths, index |-> i]}
    /\ last' = [op |-> "image"]
    /\ Inject(~Exists(fs[cache_paths].images[Len(stats.img_rets) + 1]) /\ net # "ok")
    /\ UNCHANGED <<pc, args, font, cache_paths, story_data, subtitles, exit_code, runs,
                   prev, fetchVars, comp, slugged>>

\* download_all_assets, lines 174-188: the check of the images, the narration.
DownloadAudio(net) ==
    /\ pc = "assets"
    /\ Len(stats.img_rets) = Len(GetSegments(story_data))
    /\ IF ~ImagesComplete(image_paths, GetSegments(story_data))
       THEN /\ pc' = "exited"
            /\ exit_code' = 1
            /\ UNCHANGED <<fs, stats>>
       ELSE LET d == DownloadFile(fs[cache_paths].audio,
                                  AudioBody(GetSegments(story_data)), net)
            IN  /\ fs' = [fs EXCEPT ![cache_paths].audio = d.file]
                /\ stats' = [stats EXCEPT
                                !.net = @ + d.requests,
                                !.audio_rets = Append(@, d.ret),
                                !.tried = IF d.requests > 0 THEN @ \cup {AudioAsset} ELSE @,
                                !.fetched = IF d.requests > 0 /\ d.ret
                                            THEN @ \cup {AudioAsset} ELSE @]
                /\ pc' = IF d.ret THEN "subs" ELSE "exited"
                /\ exit_code' = IF d.ret THEN exit_code ELSE 1
    /\ last' = [op |-> "audio"]
    /\ Inject(/\ ImagesComplete(image_paths, GetSegments(story_data))
              /\ ~Exists(fs[cache_paths].audio)
              /\ net # "ok")
    /\ UNCHANGED <<args, font, cache_paths, story_data, image_paths, subtitles, runs,
                   prev, fetch_log, fetchVars, comp, slugged>>

\* main(), line 441: generate_subtitles.
GenerateSubtitles(outcome, transcript) ==
    /\ pc = "subs"
    /\ LET cached == Exists(fs[cache_paths].subs)
           r == generate_subtitles(args.use_whisper, fs[cache_paths].subs, story_data,
                                   outcome, transcript)
       IN  /\ fs' = [fs EXCEPT ![cache_paths].subs = r.file]
           /\ subtitles' = [type |-> r.type, whisper |-> r.whisper, standard |-> r.standard]
           /\ stats' = [stats EXCEPT !.subproc = @ + r.subproc,
                                     !.fallbacks = @ + r.fallbacks]
           /\ pc' = IF r.crashed THEN "crashed" ELSE "compose"
           /\ exit_code' = IF r.crashed THEN 1 ELSE exit_code
           /\ last' = [op |-> "subs", use_whisper |-> args.use_whisper, cached |-> cached,
                       outcome |-> IF r.subproc > 0 THEN outcome ELSE "none",
                       subproc |-> r.subproc, fallbacks |-> r.fallbacks,
                       language |-> r.language]
    /\ Inject(args.use_whisper /\ ~Exists(fs[cache_paths].subs) /\ outcome # "ok")
    /\ UNCHANGED <<args, font, cache_paths, story_data, image_paths, runs, prev,
                   fetch_log, fetchVars, comp, slugged>>

\* The narration or one of the images, which create_final_video opens first
\* (lines 254-255), was cut short.
MediaCutShort ==
    \/ fs[cache_paths].audio.st = "partial"
    \/ \E i \in 1..Len(image_paths) : fs[cache_paths].images[i].st = "partial"

\* One of the files create_final_video opens (the narration, the images, and
\* for the text clips the font) was cut short.
InputCutShort == MediaCutShort \/ font.st = "partial"

\* main(), line 442: create_final_video.  It opens the narration and the
\* images (lines 254-255), exits when a whisper track has no segments (lines
\* 263-266), divides by the number of images (ZeroDivisionError without any),
\* builds the text clips with the font, and writes the video.  A file cut
\* short by a failed transfer may or may not decode; with ~decodes the first
\* cut-short file opened raises.  The plan it builds is SpecCompose's.
MainCompose(decodes) ==
    /\ pc = "compose"
    /\ decodes \/ InputCutShort
    /\ IF ~decodes /\ MediaCutShort
       THEN pc' = "crashed" /\ exit_code' = 1
       ELSE IF subtitles.type = "whisper" /\ subtitles.whisper.segments = <<>>
            THEN pc' = "exited" /\ exit_code' = 1
            ELSE IF image_paths = <<>> \/ ~decodes
                 THEN pc' = "crashed" /\ exit_code' = 1
                 ELSE pc' = "done" /\ exit_code' = 0
    /\ last' = [op |-> "compose"]
    /\ UNCHANGED <<args, fs, font, cache_paths, story_data, image_paths, subtitles,
                   runs, stats, prev, fetch_log, faults, fetchVars, comp, slugged>>

NoComp == [pc |-> "off"]
NoSlugged == [pc |-> "off"]

Init ==
    /\ InitPipe
    /\ dest = AbsentFile
    /\ calls = <<>>
    /\ comp = NoComp
    /\ slugged = NoSlugged

Next ==
    \/ \E a \in ArgSet : StartRun(a)
    \/ \E a \in ArgSet : ReRun(a)
    \/ \E net \in Transport : MainFont(net)
    \/ \E resp \in StoryResponses : GenerateStory(resp)
    \/ MainRename
    \/ \E net \in Transport : DownloadImage(net)
    \/ \E net \in Transport : DownloadAudio(net)
    \/ \E o \in WhisperOutcomes, t \in RunTranscripts : GenerateSubtitles(o, t)
    \/ \E decodes \in BOOLEAN : MainCompose(decodes)

Spec == Init /\ [][Next]_vars

-----------------------------------------------------------------------------
(* download_file called again and again on one destination.                *)

Urls == {"u1", "u2"}

InitFetch ==
    /\ InitPipe
    /\ dest = AbsentFile
    /\ calls = <<>>
    /\ comp = NoComp
    /\ slugged = NoSlugged

\* One call download_file(url, destination) whose request, if one is made,
\* meets `net`.
DownloadCall(url, net) ==
    /\ Len(calls) < MaxCalls
    /\ LET d == DownloadFile(dest, url, net)
       IN  /\ dest' = d.file
           /\ calls' = Append(calls, [url |-> url, net |-> net, before |-> dest,
                                      ret |-> d.ret, requests |-> d.requests,
                                      after |-> d.file])
    /\ UNCHANGED <<pipeVars, comp, slugged>>

NextFetch == \E url \in Urls, net \in Transport : DownloadCall(url, net)

SpecFetch == InitFetch /\ [][NextFetch]_vars

-----------------------------------------------------------------------------
(* create_final_video: the timeline it builds with MoviePy 1.0.3.          *)

\* Images handed to create_final_video, and the narration's length in seconds.
MaxImages == 4
MaxAudioSec == 3

Max(a, b) == IF a >= b THEN a ELSE b

RECURSIVE SumDurations(_)
SumDurations(clips) ==
    IF clips = <<>> THEN 0 ELSE Head(clips).duration + SumDurations(Tail(clips))

\* transition_duration = 0.5
TransitionDuration == TicksPerSec \div 2

TransitionKinds == {"crossfade", "slide_in_left", "slide_in_top", "fade"}

TwoSegTranscript ==
    [segments |->
        <<TSeg(0, TicksPerSec, "t1", <<Word("w1", 0, TicksPerSec)>>),
          TSeg((3 * TicksPerSec) \div 2, 3 * TicksPerSec, "t2",
               <<Word("w2", (3 * TicksPerSec) \div 2, 2 * TicksPerSec),
                 Word("w3", 2 * TicksPerSec, 3 * TicksPerSec)>>)>>]
ThreeSegTranscript ==
    [segments |->
        <<TSeg(0, TicksPerSec \div 4, "t1", <<Word("w1", 0, TicksPerSec \div 4)>>),
          [start |-> TicksPerSec \div 4, end |-> TicksPerSec, text |-> <<" ", "t2">>,
           has_words |-> FALSE, words |-> <<>>],
          TSeg(TicksPerSec, 4 * TicksPerSec, "t3",
               <<Word("w2", TicksPerSec, 2 * TicksPerSec),
                 Word("w3", TicksPerSec, 3 * TicksPerSec),
                 Word("w4", 3 * TicksPerSec, 4 * TicksPerSec)>>)>>]

ComposeTranscripts == {EmptyTranscript, ShortTranscript, TwoSegTranscript, ThreeSegTranscript}

\* The story segments behind n images (download_all_assets returns one image
\* per segment).
SegmentsFor(n) == [i \in 1..n |-> Segment(<<"voice", i>>, <<"prompt", i>>)]

ComposeTracks(n) ==
    {[type |-> "standard", whisper |-> EmptyTranscript, standard |-> SegmentsFor(n)]}
        \cup {[type |-> "whisper", whisper |-> t, standard |-> <<>>] : t \in ComposeTranscripts}

\* As StandardClipDuration, but the narration is split into one slot more than
\* there are images.
StandardClipDurationExtraSlot(narration, n) == narration \div (n + 1)

\* line 333: avg_duration = narration_audio.duration / len(raw_image_clips)
StandardClipDuration(narration, n) == narration \div n

\* lines 335-352: processed_clips, each an image with its caption.
StandardClips(narration, n, data) ==
    [i \in 1..n |->
        [image |-> i, duration |-> StandardClipDuration(narration, n),
         text |-> data[i].voice_prompt,
         text_duration |-> StandardClipDuration(narration, n)]]

\* As WhisperClips, but once the images run out the last one is kept.
WhisperClipsNoRecycle(n, segments) ==
    [i \in 1..Len(segments) |->
        [image |-> IF i <= n THEN i ELSE n, duration |-> segments[i].end - segments[i].start,
         text |-> "", text_duration |-> 0]]

\* lines 269-282: video_clips, one per whisper segment, the images recycled.
WhisperClips(n, segments) ==
    [i \in 1..Len(segments) |->
        [image |-> ((i - 1) % n) + 1, duration |-> segments[i].end - segments[i].start,
         text |-> "", text_duration |-> 0]]

\* The start, in the result, of the clip a transition adds to a base of
\* duration `base`: clip_to_add.set_start(base - 0.5) for the composite kinds;
\* concatenate_videoclips(padding=-0.5) starts it at max(0, base - 0.5).
ChainStart(base, kind) ==
    IF kind = "fade" THEN Max(0, base - TransitionDuration) ELSE base - TransitionDuration

\* The duration of the result: a CompositeVideoClip lasts until its last clip
\* ends; concatenate_videoclips sets duration to its last timing,
\* max(0, base + d + 2 * padding).
ChainDuration(base, d, kind) ==
    IF kind = "fade" THEN Max(0, base + d - 2 * TransitionDuration)
    ELSE Max(base, (base - TransitionDuration) + d)

\* str.strip() on a text whose only whitespace is " "
RECURSIVE StripSpaceLeft(_)
StripSpaceLeft(text) ==
    IF text # <<>> /\ Head(text) \in SpaceChars THEN StripSpaceLeft(Tail(text)) ELSE text

RECURSIVE StripSpaceRight(_)
StripSpaceRight(text) ==
    IF text # <<>> /\ text[Len(text)] \in SpaceChars
    THEN StripSpaceRight(SubSeq(text, 1, Len(text) - 1))
    ELSE text

Strip(text) == StripSpaceRight(StripSpaceLeft(text))

\* ' '.join([w['word'].strip() for w in words])
RECURSIVE JoinWords(_)
JoinWords(words) ==
    IF words = <<>> THEN <<>>
    ELSE IF Len(words) = 1 THEN Strip(Head(words).word)
    ELSE Strip(Head(words).word) \o <<" ">> \o JoinWords(Tail(words))

\* As Highlight, but the text joins every word of the segment that starts no
\* later than word j does.
HighlightByStart(seg, j) ==
    [text |-> JoinWords(SelectSeq(seg.words, LAMBDA w : w.start <= seg.words[j].start)),
     start |-> seg.words[j].start,
     duration |-> seg.words[j].end - seg.words[j].start, color |-> "yellow"]

\* lines 318-323: the highlight overlay of word j of a whisper segment, its
\* text the words seg_info['words'][:j+1].
Highlight(seg, j) ==
    [text |-> JoinWords(SubSeq(seg.words, 1, j)), start |-> seg.words[j].start,
     duration |-> seg.words[j].end - seg.words[j].start, color |-> "yellow"]

\* lines 303-324: the subtitle clips of one whisper segment.
SegmentOverlays(seg) ==
    <<[text |-> Strip(seg.text), start |-> seg.start, duration |-> seg.end - seg.start,
       color |-> "white"]>>
        \o (IF seg.has_words THEN [j \in 1..Len(seg.words) |-> Highlight(seg, j)] ELSE <<>>)

RECURSIVE AllSubtitleClips(_)
AllSubtitleClips(segments) ==
    IF segments = <<>> THEN <<>>
    ELSE SegmentOverlays(Head(segments)) \o AllSubtitleClips(Tail(segments))

RECURSIVE LastEnd(_)
LastEnd(overlays) ==
    IF overlays = <<>> THEN 0
    ELSE Max(Head(overlays).start + Head(overlays).duration, LastEnd(Tail(overlays)))

ComposeInputs ==
    [pc : {"build"}, images : 0..MaxImages,
     narration : {k * TicksPerSec : k \in 1..MaxAudioSec}]

InitCompose ==
    /\ InitPipe
    /\ dest = AbsentFile
    /\ calls = <<>>
    /\ slugged = NoSlugged
    /\ \E in \in ComposeInputs : \E track \in ComposeTracks(in.images) :
          comp = [pc |-> "build", images |-> in.images, narration |-> in.narration,
                  subtitles |-> track, clips |-> <<>>, starts |-> <<>>, kinds |-> <<>>,
                  base |-> 0, overlays |-> <<>>, video |-> 0, audio |-> 0]

\* lines 254-285 and 333-354: the clips, and the first of them as the base.
\* A whisper track without segments exits; no image at all divides by zero.
ComposeBuild ==
    /\ comp.pc = "build"
    /\ IF comp.subtitles.type = "whisper" /\ comp.subtitles.whisper.segments = <<>>
       THEN comp' = [comp EXCEPT !.pc = "exited"]
       ELSE IF comp.images = 0
            THEN comp' = [comp EXCEPT !.pc = "crashed"]
            ELSE LET clips == IF comp.subtitles.type = "whisper"
                              THEN WhisperClips(comp.images, comp.subtitles.whisper.segments)
                              ELSE StandardClips(comp.narration, comp.images,
                                                 comp.subtitles.standard)
                 IN  comp' = [comp EXCEPT !.pc = "chain", !.clips = clips,
                                          !.starts = <<0>>, !.base = clips[1].duration]
    /\ UNCHANGED <<pipeVars, fetchVars, slugged>>

\* lines 287-299 and 356-368: one pass of the transition loop.
ComposeChain(kind) ==
    /\ comp.pc = "chain"
    /\ Len(comp.starts) < Len(comp.clips)
    /\ LET clip_to_add == comp.clips[Len(comp.starts) + 1]
       IN  comp' = [comp EXCEPT
                       !.starts = Append(@, ChainStart(comp.base, kind)),
                       !.kinds = Append(@, kind),
                       !.base = ChainDuration(comp.base, clip_to_add.duration, kind)]
    /\ UNCHANGED <<pipeVars, fetchVars, slugged>>

\* lines 301-327 and 369: final_video, the base under the subtitle clips.
ComposeSubtitles ==
    /\ comp.pc = "chain"
    /\ Len(comp.starts) = Len(comp.clips)
    /\ LET overlays == IF comp.subtitles.type = "whisper"
                       THEN AllSubtitleClips(comp.subtitles.whisper.segments)
                       ELSE <<>>
       IN  comp' = [comp EXCEPT !.pc = "final", !.overlays = overlays,
                                !.video = Max(comp.base, LastEnd(overlays))]
    /\ UNCHANGED <<pipeVars, fetchVars, slugged>>

\* As ComposeFinalize, but the video is written as composed, never cut.
ComposeFinalizeUncut ==
    /\ comp.pc = "final"
    /\ comp' = [comp EXCEPT !.pc = "written", !.audio = comp.narration]
    /\ UNCHANGED <<pipeVars, fetchVars, slugged>>

\* lines 372-384: the narration is set as the audio, a longer video is cut to
\* the narration, the file is written.
ComposeFinalize ==
    /\ comp.pc = "final"
    /\ comp' = [comp EXCEPT !.pc = "written",
                            !.video = IF comp.video > comp.narration
                                      THEN comp.narration ELSE comp.video,
                            !.audio = comp.narration]
    /\ UNCHANGED <<pipeVars, fetchVars, slugged>>

NextCompose ==
    \/ ComposeBuild
    \/ \E kind \in TransitionKinds : ComposeChain(kind)
    \/ ComposeSubtitles
    \/ ComposeFinalize

SpecCompose == InitCompose /\ [][NextCompose]_vars

-----------------------------------------------------------------------------
(* slugify applied to any text over the alphabet.                          *)

\* The longest topic or title.
MaxLen == 3

Alphabet ==
    LowerChars \cup UpperChars \cup DigitChars \cup SpaceChars \cup {DashChar} \cup OtherChars

Texts == UNION {[1..n -> Alphabet] : n \in 0..MaxLen}

InitSlug ==
    /\ InitPipe
    /\ dest = AbsentFile
    /\ calls = <<>>
    /\ comp = NoComp
    /\ \E text \in Texts : slugged = [pc |-> "text", text |-> text, slug |-> <<>>]

\* slugify(text), and the directory Path("cache") / slug that
\* setup_cache_directories and main() make of it: cache/ itself for an empty slug.
ApplySlugify ==
    /\ slugged.pc = "text"
    /\ slugged' = [slugged EXCEPT !.pc = "slug", !.slug = slugify(slugged.text)]
    /\ UNCHANGED <<pipeVars, fetchVars, comp>>

NextSlug == ApplySlugify

SpecSlug == InitSlug /\ [][NextSlug]_vars

-----------------------------------------------------------------------------
(* Claims.                                                                 *)

\* C1: a download_file call on a destination that does not exist, whose
\* transport fails, issues exactly 3 (MAX_RETRIES) requests and returns False.
C1_RetryBound ==
    \A i \in 1..Len(calls) :
        (~Exists(calls[i].before) /\ calls[i].net # "ok")
            => (calls[i].requests = 3 /\ calls[i].ret = FALSE)

\* C2: over any sequence of download_file calls on one destination, a call
\* returns True only when the destination then holds a completely written body.
C2_SuccessMeansComplete ==
    \A i \in 1..Len(calls) : calls[i].ret => calls[i].after.st = "full"

\* C3: a second run with the arguments of a completed first run issues no
\* request, runs no subprocess and leaves the cached artifacts as they were.
C3_SecondRunOffline ==
    (prev.valid /\ prev.status = "done" /\ args = prev.args)
        => /\ stats.net = 0
           /\ stats.subproc = 0
           /\ SameArtifacts(fs, prev.fs)

\* C4: a run that follows a fatally aborted run with the same arguments issues
\* no story request when the aborted run had its story persisted, and requests
\* no image or narration the aborted run had fetched.
C4_ResumeRepeatsNothing ==
    (prev.valid /\ prev.status = "exited" /\ args = prev.args)
        => /\ prev.story_persisted => stats.story_reqs = 0
           /\ stats.tried \cap prev.fetched = {}

\* C5: generate_subtitles in word-level mode without a cached transcription,
\* on an executable that is missing or exits non-zero, returns the standard
\* track of the story's segments after one subprocess run and one fallback,
\* and the run goes on (for a story that carries a 'segments' list).
C5_FallbackTerminates ==
    (/\ last.op = "subs"
     /\ last.use_whisper
     /\ ~last.cached
     /\ last.outcome \in {"notfound", "nonzero"}
     /\ story_data.has_segments)
        => /\ pc = "compose"
           /\ exit_code = NoExit
           /\ subtitles.type = "standard"
           /\ subtitles.standard = story_data.segments
           /\ last.subproc = 1
           /\ last.fallbacks = 1
           /\ stats.subproc = 1

C5_Witness ==
    /\ last.op = "subs"
    /\ last.use_whisper
    /\ ~last.cached
    /\ last.outcome = "nonzero"
    /\ story_data.has_segments
    /\ subtitles.type = "standard"
    /\ Len(subtitles.standard) = 2

\* The subtitle stage has been entered in this run.
ReachedSubtitles == pc = "subs" \/ last.op \in {"subs", "compose"}

FetchResults == stats.img_rets \o stats.audio_rets

\* C6: the subtitle and composition stages are entered only after every image
\* fetch and the narration fetch returned True, with one image path per
\* segment in segment order; once a fetch has returned False and
\* download_all_assets is over, the process has exited with status 1.
C6_NoPartialAssets ==
    /\ ReachedSubtitles
          => /\ Len(stats.img_rets) = Len(GetSegments(story_data))
             /\ \A i \in 1..Len(stats.img_rets) : stats.img_rets[i]
             /\ stats.audio_rets = <<TRUE>>
             /\ image_paths = [i \in 1..Len(GetSegments(story_data)) |-> i]
    /\ ((\E i \in 1..Len(FetchResults) : ~FetchResults[i]) /\ last.op # "image")
          => (pc = "exited" /\ exit_code = 1 /\ ~ReachedSubtitles)

C6_Witness ==
    /\ pc = "exited"
    /\ last.op = "audio"
    /\ Len(GetSegments(story_data)) = 2
    /\ Len(image_paths) = 1

\* C9: any two image fetches with the same prompt and seed have the same
\* destination path.
C9_SamePromptSeedSamePath ==
    \A a, b \in fetch_log :
        (a.prompt = b.prompt /\ a.seed = b.seed) => (a.dir = b.dir /\ a.index = b.index)

\* C10: on a story cache miss exactly one request is made; a transport
\* failure or an unparsable body ends the process with status 1 and no
\* story.json; a parsed payload is in story.json when it is returned.  On a
\* cache hit no request is made and the persisted story is returned.
C10_StoryStage ==
    last.op = "story"
        => IF last.hit
           THEN /\ stats.story_reqs = 0
                /\ pc = "rename"
                /\ Exists(StoryFile(fs, cache_paths))
                /\ story_data = StoryFile(fs, cache_paths).body
           ELSE /\ stats.story_reqs = 1
                /\ last.resp.kind \in StoryFailures
                      => /\ pc = "exited"
                         /\ exit_code = 1
                         /\ ~Exists(StoryFile(fs, cache_paths))
                /\ last.resp.kind = "json"
                      => /\ pc = "rename"
                         /\ StoryFile(fs, cache_paths) = FullFile(last.resp.payload)
                         /\ story_data = last.resp.payload

C10_Witness ==
    /\ last.op = "story"
    /\ ~last.hit
    /\ last.resp.kind = "garbage"
    /\ pc = "exited"
    /\ stats.story_reqs = 1

\* C7: in both regimes the written video lasts exactly as long as its audio track.
C7_VideoEqualsAudio == comp.pc = "written" => comp.video = comp.audio

\* C8: in the sentence regime with N images and narration D there are N clips
\* of duration D/N summing to D, each carrying as caption, for its whole
\* duration, its segment's voice prompt, and N-1 transitions.
C8_SentenceRegime ==
    (comp.pc \in {"chain", "final", "written"} /\ comp.subtitles.type = "standard")
        => /\ Len(comp.clips) = comp.images
           /\ \A i \in 1..Len(comp.clips) :
                 /\ comp.clips[i].duration * comp.images = comp.narration
                 /\ comp.clips[i].image = i
                 /\ comp.clips[i].text = comp.subtitles.standard[i].voice_prompt
                 /\ comp.clips[i].text_duration = comp.clips[i].duration
           /\ SumDurations(comp.clips) = comp.narration
           /\ comp.pc # "chain" => Len(comp.kinds) = comp.images - 1

C8_Witness ==
    /\ comp.pc = "written"
    /\ comp.subtitles.type = "standard"
    /\ comp.images = 4
    /\ Len(comp.kinds) = 3
    /\ comp.narration = 3 * TicksPerSec

\* C11: a story that reaches download_all_assets in a run that issued a story
\* request has exactly 5 segments.
C11_FiveSegments ==
    (pc \in {"assets", "subs", "compose", "done"} /\ stats.story_reqs > 0)
        => /\ story_data.has_segments
           /\ Len(story_data.segments) = RequiredSegments

\* C12: a download_file call on a destination that exists returns True,
\* issues no request and leaves the file as it was, whatever the url.
C12_CacheHitFrame ==
    \A i \in 1..Len(calls) :
        Exists(calls[i].before)
            => /\ calls[i].ret
               /\ calls[i].requests = 0
               /\ calls[i].after = calls[i].before

C12_Witness ==
    /\ Len(calls) = 2
    /\ calls[1].net = "cut"
    /\ Exists(calls[2].before)
    /\ calls[2].url # calls[1].url
    /\ calls[2].requests = 0
    /\ calls[2].after = PartialFile(calls[1].url)

\* The duration C13 gives to the first k clips chained: their durations summed,
\* less one overlap per transition.
ShrunkDuration(clips, k) ==
    SumDurations(SubSeq(clips, 1, k)) - TransitionDuration * (k - 1)

\* C13: whatever the transition kinds and the clip durations, the first k clips
\* chained last the sum of their durations less 0.5 s per transition, and clip
\* i+1 starts 0.5 s before the end of clips 1..i so composed.
C13_TransitionShrink ==
    comp.pc \in {"chain", "final", "written"}
        => /\ comp.base = ShrunkDuration(comp.clips, Len(comp.starts))
           /\ \A i \in 2..Len(comp.starts) :
                 comp.starts[i] = ShrunkDuration(comp.clips, i - 1) - TransitionDuration

\* The number of subtitle clips of the segments before segment k: one
\* background text each, and one highlight per word.
RECURSIVE ClipsBefore(_, _)
ClipsBefore(segments, k) ==
    IF k <= 1 THEN 0
    ELSE ClipsBefore(segments, k - 1) + 1
            + (IF segments[k - 1].has_words THEN Len(segments[k - 1].words) ELSE 0)

\* C14: in the word-timed regime every word of a segment has exactly one
\* highlight overlay, starting at the word's start, lasting to its end, whose
\* text joins with spaces every word of the segment that starts no later
\* than it, also when two words share a start.
C14_WordHighlights ==
    (comp.pc \in {"final", "written"} /\ comp.subtitles.type = "whisper")
        => LET segs == comp.subtitles.whisper.segments
           IN  /\ Len(SelectSeq(comp.overlays, LAMBDA o : o.color = "yellow"))
                     = ClipsBefore(segs, Len(segs) + 1) - Len(segs)
               /\ \A k \in 1..Len(segs) :
                     segs[k].has_words
                         => \A j \in 1..Len(segs[k].words) :
                               comp.overlays[ClipsBefore(segs, k) + 1 + j]
                                   = HighlightByStart(segs[k], j)

\* C15: in the word-timed regime the written video lasts until the end
\* timestamp of the last transcription segment, whatever the narration lasts.
C15_WhisperTotalDuration ==
    (comp.pc = "written" /\ comp.subtitles.type = "whisper")
        => LET segs == comp.subtitles.whisper.segments
           IN  comp.video = segs[Len(segs)].end

\* C16: in the word-timed regime there is one visual clip per transcription
\* segment, in segment order; clip i (counted from 0) shows the image of index
\* i modulo the image count and lasts from the segment's start to its end.
C16_ClipPerSegment ==
    (comp.pc \in {"chain", "final", "written"} /\ comp.subtitles.type = "whisper")
        => LET segs == comp.subtitles.whisper.segments
           IN  /\ Len(comp.clips) = Len(segs)
               /\ \A i \in 0..(Len(segs) - 1) :
                     /\ comp.clips[i + 1].image - 1 = i % comp.images
                     /\ comp.clips[i + 1].duration = segs[i + 1].end - segs[i + 1].start

C16_Witness ==
    /\ comp.pc = "written"
    /\ comp.subtitles.type = "whisper"
    /\ Len(comp.subtitles.whisper.segments) = 3
    /\ comp.images = 2
    /\ Len(comp.clips) = 3
    /\ comp.clips[3].image = 1

\* The track generate_subtitles returned is the standard one, carrying the
\* story's segments unchanged.
ReturnedStandard ==
    /\ subtitles.type = "standard"
    /\ subtitles.standard = story_data.segments

\* C17: generate_subtitles returns a whisper track exactly when use_whisper
\* is set and either a cached transcription exists or the subprocess succeeds
\* (exits with status 0), and the standard track of the story's segments
\* otherwise; the subprocess is run exactly when use_whisper is set and no
\* cached transcription exists.  (Stated for stories that carry 'segments'.)
C17_TrackType ==
    (last.op = "subs" /\ story_data.has_segments)
        => LET succeeded == last.outcome \in WhisperExitsZero
               word_timed == last.use_whisper /\ (last.cached \/ succeeded)
           IN  /\ (subtitles.type = "whisper") <=> word_timed
               /\ ~word_timed => ReturnedStandard
               /\ (last.subproc > 0) <=> (last.use_whisper /\ ~last.cached)

\* The duration of final_video as composed, before the finalisation.
ComposedDuration == Max(comp.base, LastEnd(comp.overlays))

\* C18: in both regimes the written video never lasts longer than the
\* narration: a composed video longer than the narration is cut to the
\* narration's duration, any other is written as composed.
C18_TruncatedToAudio ==
    comp.pc = "written"
        => /\ comp.video <= comp.narration
           /\ comp.audio = comp.narration
           /\ comp.video = IF ComposedDuration > comp.narration
                            THEN comp.narration ELSE ComposedDuration

C18_Witness ==
    /\ comp.pc = "written"
    /\ comp.subtitles.type = "whisper"
    /\ ComposedDuration = 4 * TicksPerSec
    /\ comp.narration = 3 * TicksPerSec
    /\ comp.video = 3 * TicksPerSec

\* The story stage of main() (the story, then the rename) is over in this run.
PastStoryStage == last.op \in {"rename", "image", "audio", "subs", "compose"}

\* C19: once the story stage of main() is over, the story is persisted at
\* cache/<slugify(title)>/story.json and cache_paths is cache/<slugify(title)>/,
\* whatever the topic and the cache earlier runs left (for a title whose slug
\* is not empty).
C19_CacheKeyedByTitle ==
    (PastStoryStage /\ story_data.has_title /\ slugify(story_data.title) # RootSlug)
        => /\ cache_paths = slugify(story_data.title)
           /\ StoryFile(fs, slugify(story_data.title)) = FullFile(story_data)

\* C20: whatever runs came before, with whatever seeds, every image path
\* download_all_assets hands downstream holds the image of the segment's
\* image prompt and of the current run's seed.
C20_ImagesOfCurrentSeed ==
    ReachedSubtitles
        => \A k \in 1..Len(image_paths) :
              LET i == image_paths[k]
              IN  fs[cache_paths].images[i].body
                     = ImageBody(GetSegments(story_data)[i].image_prompt, CurrentSeed(args))

\* C21: for every non-empty topic or title slugify returns a non-empty slug,
\* so that the story's cache directory is never cache/ itself.
C21_SlugNonEmpty ==
    (slugged.pc = "slug" /\ slugged.text # <<>>) => slugged.slug # RootSlug

\* C22: in the word-timed regime the visual clip of transcription segment i
\* starts, on the composed timeline, at the segment's start, the instant at
\* which the segment's subtitle overlay starts, whatever the transitions.
C22_ClipsInSync ==
    (comp.pc \in {"final", "written"} /\ comp.subtitles.type = "whisper")
        => LET segs == comp.subtitles.whisper.segments
           IN  \A i \in 1..Len(segs) :
                  /\ comp.starts[i] = segs[i].start
                  /\ comp.starts[i] = comp.overlays[ClipsBefore(segs, i) + 1].start

=============================================================================
